---------------------------- MODULE Spec2Model ----------------------------
(***************************************************************************)
(* PageRank (src/pagerank.py): the transition model, the sampling          *)
(* estimator and the iterative estimator, all working on one corpus        *)
(* dictionary that the caller owns.                                        *)
(*                                                                         *)
(* Arithmetic.  The program computes with Python floats.  The model        *)
(* computes the same expressions exactly: a number is a signed fixed-point *)
(* numeral in base 27000 = 2^3 * 3^3 * 5^3, of unbounded length, so every  *)
(* quotient the program forms for the modelled inputs (by a page count, an *)
(* out-degree, a visit total, and the literals 0.85 and 0.001) is          *)
(* represented without rounding.  Numerals are kept canonical (no leading  *)
(* and no trailing zero limb), so two numbers are equal iff their          *)
(* representations are equal.                                              *)
(***************************************************************************)
EXTENDS Integers, Sequences, FiniteSets, TLC

\* ------------------------------------------------------------------------
\* Bounds of the model
\* pages of the largest corpus
MaxPages == 3

\* links of the largest corpus
MaxEdges == 3

\* largest n passed to sample_pagerank
MaxSamples == 2

\* ------------------------------------------------------------------------
\* Exact arithmetic: magnitudes are little-endian sequences of limbs
Base == 30 * 30 * 30

Limb(a, i) == IF i <= Len(a) THEN a[i] ELSE 0

MaxOf(x, y) == IF x >= y THEN x ELSE y

\* A search over limbs lo..hi splits the range in two, so that the depth of
\* the evaluation grows with the logarithm of the length.
Mid(lo, hi) == (lo + hi) \div 2

\* the highest index in lo..hi of a non-zero limb, 0 if there is none
RECURSIVE TopNonZero(_, _, _)
TopNonZero(a, lo, hi) ==
    IF lo > hi THEN 0
    ELSE IF lo = hi THEN (IF a[lo] # 0 THEN lo ELSE 0)
    ELSE LET t == TopNonZero(a, Mid(lo, hi) + 1, hi)
         IN  IF t # 0 THEN t ELSE TopNonZero(a, lo, Mid(lo, hi))

\* the lowest index in lo..hi of a non-zero limb, 0 if there is none
RECURSIVE LowNonZero(_, _, _)
LowNonZero(a, lo, hi) ==
    IF lo > hi THEN 0
    ELSE IF lo = hi THEN (IF a[lo] # 0 THEN lo ELSE 0)
    ELSE LET t == LowNonZero(a, lo, Mid(lo, hi))
         IN  IF t # 0 THEN t ELSE LowNonZero(a, Mid(lo, hi) + 1, hi)

StripHigh(a) == SubSeq(a, 1, TopNonZero(a, 1, Len(a)))

\* the carry into limb i of a + b: limb i - 1 overflows by itself, or it is
\* full and takes a carry in turn
RECURSIVE CarryInto(_, _, _)
CarryInto(a, b, i) ==
    IF i = 1 THEN 0
    ELSE LET s == Limb(a, i - 1) + Limb(b, i - 1)
         IN  IF s >= Base THEN 1
             ELSE IF s = Base - 1 THEN CarryInto(a, b, i - 1)
             ELSE 0

MAdd(a, b) ==
    IF Len(a) = 0 THEN b
    ELSE IF Len(b) = 0 THEN a
    ELSE LET k == MaxOf(Len(a), Len(b))
             top == CarryInto(a, b, k + 1)
         IN  SubSeq([i \in 1..(k + 1) |->
                        IF i <= k
                        THEN (Limb(a, i) + Limb(b, i) + CarryInto(a, b, i)) % Base
                        ELSE top],
                    1, k + top)

\* the borrow from limb i of a - b
RECURSIVE BorrowFrom(_, _, _)
BorrowFrom(a, b, i) ==
    IF i = 1 THEN 0
    ELSE LET s == Limb(a, i - 1) - Limb(b, i - 1)
         IN  IF s < 0 THEN 1
             ELSE IF s = 0 THEN BorrowFrom(a, b, i - 1)
             ELSE 0

\* a - b for a >= b
MSub(a, b) ==
    IF Len(b) = 0 THEN a
    ELSE StripHigh(SubSeq([i \in 1..Len(a) |->
                              (Limb(a, i) - Limb(b, i) - BorrowFrom(a, b, i) + Base) % Base],
                          1, Len(a)))

\* -1, 0, 1 as a < b, a = b, a > b on limbs lo..hi
RECURSIVE MCmpRange(_, _, _, _)
MCmpRange(a, b, lo, hi) ==
    IF lo > hi THEN 0
    ELSE IF lo = hi
         THEN (IF a[lo] > b[lo] THEN 1 ELSE IF a[lo] < b[lo] THEN -1 ELSE 0)
    ELSE LET c == MCmpRange(a, b, Mid(lo, hi) + 1, hi)
         IN  IF c # 0 THEN c ELSE MCmpRange(a, b, lo, Mid(lo, hi))

MCmp(a, b) ==
    IF Len(a) > Len(b) THEN 1
    ELSE IF Len(a) < Len(b) THEN -1
    ELSE MCmpRange(a, b, 1, Len(a))

\* a * s for 0 <= s <= Base: the low halves of the limb products plus their
\* high halves one limb up
MMulLimb(a, s) ==
    IF s = 0 \/ Len(a) = 0 THEN <<>>
    ELSE LET k  == Len(a)
             lo == SubSeq([i \in 1..k |-> (a[i] * s) % Base], 1, k)
             hi == SubSeq([i \in 1..(k + 1) |->
                              IF i = 1 THEN 0 ELSE (a[i - 1] * s) \div Base], 1, k + 1)
         IN  StripHigh(MAdd(lo, hi))

\* a * Base^k
MShift(a, k) ==
    IF Len(a) = 0 \/ k = 0 THEN a
    ELSE SubSeq([i \in 1..(k + Len(a)) |-> IF i <= k THEN 0 ELSE a[i - k]], 1, k + Len(a))

\* a * b, one limb of b at a time
RECURSIVE MMulRec(_, _, _, _)
MMulRec(a, b, j, acc) ==
    IF j > Len(b) THEN acc
    ELSE MMulRec(a, b, j + 1, MAdd(acc, MShift(MMulLimb(a, b[j]), j - 1)))

MMul(a, b) == IF Len(a) >= Len(b) THEN MMulRec(a, b, 1, <<>>) ELSE MMulRec(b, a, 1, <<>>)

\* ------------------------------------------------------------------------
\* Numbers: (-1)^neg * mant / Base^exp
Norm(neg, mant, exp) ==
    LET m == StripHigh(mant)
    IN  IF Len(m) = 0
        THEN [neg |-> FALSE, mant |-> <<>>, exp |-> 0]
        ELSE LET z == LowNonZero(m, 1, Len(m)) - 1
                 k == IF z < exp THEN z ELSE exp
             IN  [neg |-> neg, mant |-> SubSeq(m, k + 1, Len(m)), exp |-> exp - k]

Zero == [neg |-> FALSE, mant |-> <<>>, exp |-> 0]

FromInt(k) ==
    IF k = 0 THEN Zero
    ELSE LET a == IF k < 0 THEN -k ELSE k
         IN  Norm(k < 0, <<a % Base, (a \div Base) % Base, a \div (Base * Base)>>, 0)

One == FromInt(1)

Neg(x) == IF Len(x.mant) = 0 THEN x ELSE [x EXCEPT !.neg = ~x.neg]

Abs(x) == [x EXCEPT !.neg = FALSE]

Add(x, y) ==
    LET e == MaxOf(x.exp, y.exp)
        a == MShift(x.mant, e - x.exp)
        b == MShift(y.mant, e - y.exp)
    IN  IF x.neg = y.neg
        THEN Norm(x.neg, MAdd(a, b), e)
        ELSE IF MCmp(a, b) >= 0
             THEN Norm(x.neg, MSub(a, b), e)
             ELSE Norm(y.neg, MSub(b, a), e)

Sub(x, y) == Add(x, Neg(y))

Mul(x, y) == Norm(x.neg # y.neg, MMul(x.mant, y.mant), x.exp + y.exp)

\* x / k for an integer k >= 1 that divides Base
Div(x, k) ==
    LET q == CHOOSE c \in {Base \div k} : c * k = Base
    IN  Norm(x.neg, MMulLimb(x.mant, q), x.exp + 1)

\* the fraction a / b, for b >= 1 dividing Base
Frac(a, b) == Div(FromInt(a), b)

Gt(x, y) == LET d == Sub(x, y) IN Len(d.mant) > 0 /\ ~d.neg

IsPos(x) == Len(x.mant) > 0 /\ ~x.neg

RECURSIVE SumOver(_, _)
SumOver(f, S) ==
    IF S = {} THEN Zero
    ELSE LET p == CHOOSE q \in S : TRUE
         IN  Add(f[p], SumOver(f, S \ {p}))

\* sum(d.values())
SumValues(f) == SumOver(f, DOMAIN f)

\* ------------------------------------------------------------------------
\* Literals of the program
\* DAMPING = 0.85
DAMPING == Frac(17, 20)

\* the literal 0.001 of update_page_rank
Tolerance == Frac(1, 1000)

\* update_page_rank calls itself once per round.  CPython refuses a call that
\* would take the stack past sys.getrecursionlimit(), 1000 unless changed, and
\* raises RecursionError.  Under main() the frames below the first
\* update_page_rank are <module>, main, iterate_pagerank, recursive_page_rank.
RecursionLimit == 1000

CallerFrames == 4

\* ------------------------------------------------------------------------
\* The corpus, as crawl() builds it: every link target is a page of the
\* corpus and no page links to itself.
PageName(k) == <<"A", "B", "C", "D", "E", "F">>[k]

PagesOf(m) == {PageName(k) : k \in 1..m}

PageIndex(p) == CHOOSE k \in 1..6 : PageName(k) = p

LinkCount(g) == Cardinality({e \in (DOMAIN g) \X (DOMAIN g) : e[2] \in g[e[1]]})

\* Page names are opaque, so one corpus stands for all its renamings: the one
\* whose links, read as a binary numeral, are least.
RECURSIVE Pow2(_)
Pow2(k) == IF k = 0 THEN 1 ELSE 2 * Pow2(k - 1)

RECURSIVE SumInts(_)
SumInts(S) == IF S = {} THEN 0 ELSE LET x == CHOOSE y \in S : TRUE IN x + SumInts(S \ {x})

LinkCode(g, f) ==
    SumInts({Pow2(6 * (PageIndex(f[e[1]]) - 1) + PageIndex(f[e[2]]) - 1) :
                e \in {e \in (DOMAIN g) \X (DOMAIN g) : e[2] \in g[e[1]]}})

LeastRenaming(g) ==
    \A f \in Permutations(DOMAIN g) :
        LinkCode(g, [p \in DOMAIN g |-> p]) <= LinkCode(g, f)

crawl ==
    UNION {{g \in [PagesOf(m) -> SUBSET PagesOf(m)] :
               /\ \A p \in PagesOf(m) : p \notin g[p]
               /\ LinkCount(g) <= MaxEdges
               /\ LeastRenaming(g)} : m \in 0..MaxPages}

\* len(d)
len(d) == Cardinality(DOMAIN d)

\* ------------------------------------------------------------------------
\* transition_model(corpus, page, damping_factor)
\* corpus.get(page) is None for a page that is no key; None and the empty set
\* are both false in `if links:`, so both are the empty set here.
get_links(corpus, page) == IF page \in DOMAIN corpus THEN corpus[page] ELSE {}

\* as transition_model, but the second loop overwrites the share of a linked page
transition_model_overwriting(corpus, page, damping_factor) ==
    LET links == get_links(corpus, page)
    IN  IF links # {}
        THEN [key \in links \cup DOMAIN corpus |->
                Div(Sub(One, damping_factor), len(corpus))]
        ELSE [key \in DOMAIN corpus |-> Div(One, len(corpus))]

transition_model(corpus, page, damping_factor) ==
    LET links == get_links(corpus, page)
    IN  IF links # {}
        THEN [key \in links \cup DOMAIN corpus |->
                IF key \in links
                THEN IF key \in DOMAIN corpus
                     THEN Add(Div(damping_factor, Cardinality(links)),
                              Div(Sub(One, damping_factor), len(corpus)))
                     ELSE Div(damping_factor, Cardinality(links))
                ELSE Div(Sub(One, damping_factor), len(corpus))]
        ELSE [key \in DOMAIN corpus |-> Div(One, len(corpus))]

\* ------------------------------------------------------------------------
\* iterate_pagerank and its helpers
assign_initial_rank(corpus) ==
    [key \in DOMAIN corpus |-> Div(One, len(corpus))]

\* as fill_empty_links, but nothing is filled in
fill_no_links(corpus) == corpus

\* as fill_empty_links, but a page without links is not linked to itself
fill_links_to_others(corpus) ==
    [key \in DOMAIN corpus |->
        IF corpus[key] = {} THEN DOMAIN corpus \ {key} ELSE corpus[key]]

\* recursive_page_rank: a page without links gets one link to every page,
\* written into the corpus dictionary itself
fill_empty_links(corpus) ==
    [key \in DOMAIN corpus |-> IF corpus[key] = {} THEN DOMAIN corpus ELSE corpus[key]]

\* the keys that point to page
links_to(corpus, page) == {key \in DOMAIN corpus : page \in corpus[key]}

sum_from_formula(corpus, result, page) ==
    LET links == links_to(corpus, page)
    IN  SumOver([link \in links |-> Div(result[link], Cardinality(corpus[link]))], links)

new_rank(corpus, result, damping_factor, chance, page) ==
    Add(chance, Mul(damping_factor, sum_from_formula(corpus, result, page)))

\* as new_result_of, but every rank is written into result at once, so that
\* the later pages of the round read it
RECURSIVE update_in_place(_, _, _, _, _)
update_in_place(corpus, result, damping_factor, chance, k) ==
    IF k > len(corpus) THEN result
    ELSE update_in_place(corpus,
             [result EXCEPT ![PageName(k)] =
                 new_rank(corpus, result, damping_factor, chance, PageName(k))],
             damping_factor, chance, k + 1)

new_result_in_place(corpus, result, damping_factor, chance) ==
    update_in_place(corpus, result, damping_factor, chance, 1)

\* the first loop of update_page_rank: new_result is filled from result
new_result_of(corpus, result, damping_factor, chance) ==
    [page \in DOMAIN corpus |-> new_rank(corpus, result, damping_factor, chance, page)]

\* the second loop of update_page_rank
repeat_of(new_result, result) ==
    \E key \in DOMAIN new_result :
        Gt(Abs(Sub(new_result[key], result[key])), Tolerance)

\* ------------------------------------------------------------------------
\* State
VARIABLES
    corpus,                 \* the dictionary the caller passes to every call
    crawled,                \* the corpus as crawl() returned it
    pc,                     \* "idle", "sample" (in the loop), "update" (in a round)
    outcome,                \* how the last call ended
    damping_factor,         \* argument of the running call
    n,                      \* argument of sample_pagerank
    page,                   \* sample_pagerank: the current page; transition_model: its argument
    clicks,                 \* sample_pagerank
    transition,             \* sample_pagerank
    i,                      \* sample_pagerank: draws done
    result,                 \* update_page_rank
    chance_of_random_page,  \* recursive_page_rank
    depth                   \* nested calls of update_page_rank so far

vars == <<corpus, crawled, pc, outcome, damping_factor, n, page, clicks,
          transition, i, result, chance_of_random_page, depth>>

NoOutcome == [op |-> "none", kind |-> "none", value |-> <<>>]

Returned(op, value) == [op |-> op, kind |-> "return", value |-> value]

Raised(op, exception) == [op |-> op, kind |-> exception, value |-> <<>>]

\* The damping factors the callers pass, as tuples: a call takes any one.
Dampings == <<Zero, Frac(1, 2), DAMPING, One, FromInt(2), Frac(-1, 2)>>

\* those for which every modelled corpus settles within a few dozen rounds
QuickDampings == <<Zero, Frac(1, 2), DAMPING, Frac(-1, 2)>>

\* a damping factor close to 1, and 1 itself
SlowDampings == <<Frac(199, 200), One>>

\* those in [0,1], whose weights random.choices accepts
SampleDampings == <<Zero, DAMPING, One>>

SampleLocalsCleared ==
    /\ n' = 0
    /\ clicks' = <<>>
    /\ transition' = <<>>
    /\ i' = 0

IterateLocalsCleared ==
    /\ result' = <<>>
    /\ chance_of_random_page' = Zero
    /\ depth' = 0

Init ==
    /\ corpus \in crawl
    /\ crawled = corpus
    /\ pc = "idle"
    /\ outcome = NoOutcome
    /\ damping_factor = Zero
    /\ n = 0
    /\ page = "None"
    /\ clicks = <<>>
    /\ transition = <<>>
    /\ i = 0
    /\ result = <<>>
    /\ chance_of_random_page = Zero
    /\ depth = 0

\* ------------------------------------------------------------------------
\* A call of transition_model
TransitionCall ==
    /\ pc = "idle"
    /\ \E j \in 1..Len(Dampings) :
       \E p \in (IF DOMAIN corpus = {} THEN {PageName(1)} ELSE DOMAIN corpus) :
          /\ damping_factor' = Dampings[j]
          /\ page' = p
          /\ outcome' = Returned("transition_model",
                                 transition_model(corpus, p, Dampings[j]))
    /\ SampleLocalsCleared
    /\ IterateLocalsCleared
    /\ UNCHANGED <<corpus, crawled, pc>>

\* ------------------------------------------------------------------------
\* sample_pagerank: up to the loop
SampleCall ==
    /\ pc = "idle"
    /\ \E j \in 1..Len(SampleDampings) : damping_factor' = SampleDampings[j]
    /\ \E k \in 0..MaxSamples : n' = k
    /\ IterateLocalsCleared
    /\ i' = 0
    /\ IF DOMAIN corpus = {}
       THEN \* random.choice of an empty list
            /\ outcome' = Raised("sample_pagerank", "IndexError")
            /\ pc' = "idle"
            /\ page' = "None"
            /\ clicks' = <<>>
            /\ transition' = <<>>
       ELSE \E p \in DOMAIN corpus :
            /\ page' = p
            /\ clicks' = [q \in {p} |-> 1]
            /\ transition' = transition_model(corpus, p, damping_factor')
            /\ pc' = "sample"
            /\ outcome' = NoOutcome
    /\ UNCHANGED <<corpus, crawled>>

\* as count_click, but the count is set to 1
count_click_once(c, p) == [q \in DOMAIN c \cup {p} |-> IF q = p THEN 1 ELSE c[q]]

\* clicks[page] = clicks.get(page, 0) + 1
count_click(c, p) ==
    [q \in DOMAIN c \cup {p} |->
        IF q = p THEN (IF p \in DOMAIN c THEN c[p] ELSE 0) + 1 ELSE c[q]]

\* one pass of the loop: random.choices never picks a key of weight 0
SampleDraw ==
    /\ pc = "sample"
    /\ i < n
    /\ \E q \in DOMAIN transition :
          /\ IsPos(transition[q])
          /\ page' = q
          /\ clicks' = count_click(clicks, q)
          /\ transition' = transition_model(corpus, q, damping_factor)
    /\ i' = i + 1
    /\ UNCHANGED <<corpus, crawled, pc, outcome, damping_factor, n,
                   result, chance_of_random_page, depth>>

RECURSIVE sum_counts(_, _)
sum_counts(c, S) ==
    IF S = {} THEN 0
    ELSE LET p == CHOOSE q \in S : TRUE IN c[p] + sum_counts(c, S \ {p})

\* the counts divided by their sum
normalized_clicks(c) ==
    LET amount_of_clicks == sum_counts(c, DOMAIN c)
    IN  [key \in DOMAIN c |-> Div(FromInt(c[key]), amount_of_clicks)]

\* after the loop
SampleReturn ==
    /\ pc = "sample"
    /\ i = n
    /\ clicks' = normalized_clicks(clicks)
    /\ outcome' = Returned("sample_pagerank", clicks')
    /\ pc' = "idle"
    /\ UNCHANGED <<corpus, crawled, damping_factor, n, page, transition, i,
                   result, chance_of_random_page, depth>>

\* ------------------------------------------------------------------------
\* iterate_pagerank: assign_initial_rank and recursive_page_rank up to the
\* first call of update_page_rank
IterateCall(D) ==
    /\ pc = "idle"
    /\ \E j \in 1..Len(D) : damping_factor' = D[j]
    /\ SampleLocalsCleared
    /\ page' = "None"
    /\ depth' = 0
    /\ IF len(corpus) = 0
       THEN \* 1 / num_of_pages
            /\ outcome' = Raised("iterate_pagerank", "ZeroDivisionError")
            /\ pc' = "idle"
            /\ result' = <<>>
            /\ chance_of_random_page' = Zero
            /\ UNCHANGED corpus
       ELSE /\ result' = assign_initial_rank(corpus)
            /\ chance_of_random_page' = Div(Sub(One, damping_factor'), len(corpus))
            /\ corpus' = fill_empty_links(corpus)
            /\ pc' = "update"
            /\ outcome' = NoOutcome
    /\ UNCHANGED crawled

\* one call of update_page_rank, up to its own recursive call or its return;
\* the callers above hand the returned dictionary on unchanged
UpdateRound ==
    /\ pc = "update"
    /\ CallerFrames + depth + 1 < RecursionLimit
    /\ LET new_result == new_result_of(corpus, result, damping_factor, chance_of_random_page)
       IN  /\ result' = new_result
           /\ IF repeat_of(new_result, result)
              THEN pc' = "update" /\ outcome' = outcome
              ELSE pc' = "idle" /\ outcome' = Returned("iterate_pagerank", new_result)
    /\ depth' = depth + 1
    /\ UNCHANGED <<corpus, crawled, damping_factor, n, page, clicks, transition, i,
                   chance_of_random_page>>

\* the recursive call that the interpreter refuses
UpdateRecursionError ==
    /\ pc = "update"
    /\ CallerFrames + depth + 1 >= RecursionLimit
    /\ outcome' = Raised("iterate_pagerank", "RecursionError")
    /\ pc' = "idle"
    /\ UNCHANGED <<corpus, crawled, damping_factor, n, page, clicks, transition, i,
                   result, chance_of_random_page, depth>>

Next ==
    \/ TransitionCall
    \/ SampleCall
    \/ SampleDraw
    \/ SampleReturn
    \/ IterateCall(QuickDampings)
    \/ UpdateRound

Spec == Init /\ [][Next]_vars

\* the iterative estimator and the transition model on the same corpus
IterNext ==
    \/ TransitionCall
    \/ IterateCall(QuickDampings)
    \/ UpdateRound

IterSpec == Init /\ [][IterNext]_vars

\* the sampling estimator alone
SampleNext ==
    \/ SampleCall
    \/ SampleDraw
    \/ SampleReturn

SampleSpec == Init /\ [][SampleNext]_vars

\* iterate_pagerank alone, called with the slow damping factors
LimitNext ==
    \/ IterateCall(SlowDampings)
    \/ UpdateRound
    \/ UpdateRecursionError

LimitSpec == Init /\ [][LimitNext]_vars

\* ------------------------------------------------------------------------
\* Properties
IterateRunning == pc = "update"

IterateReturned ==
    pc = "idle" /\ outcome.op = "iterate_pagerank" /\ outcome.kind = "return"

SampleReturned ==
    pc = "idle" /\ outcome.op = "sample_pagerank" /\ outcome.kind = "return"

TransitionReturned ==
    pc = "idle" /\ outcome.op = "transition_model" /\ outcome.kind = "return"

\* 0 <= d < 1
InHalfOpenUnit(d) == ~d.neg /\ Gt(One, d)

\* 0 < d < 1
InOpenUnit(d) == IsPos(d) /\ Gt(One, d)

HasPageWithoutLinks(g) == \E p \in DOMAIN g : g[p] = {}

\* C1: for a non-empty corpus and a damping factor in (0,1), the ranks of
\* iterate_pagerank have exactly the pages of the corpus as keys and sum to
\* exactly 1, at the initial assignment, after every round and in the
\* returned mapping.
C1_RanksSumToOne ==
    ((IterateRunning \/ IterateReturned) /\ InOpenUnit(damping_factor)) =>
        /\ DOMAIN result = DOMAIN crawled
        /\ SumValues(result) = One
        /\ IterateReturned => outcome.value = result

C1_Witness ==
    /\ IterateReturned
    /\ InOpenUnit(damping_factor)
    /\ HasPageWithoutLinks(crawled)
    /\ len(crawled) >= 2
    /\ depth >= 2

\* C2: for a non-empty corpus of n pages and a page of it with k out-links,
\* transition_model returns a mapping over exactly the n pages; with k > 0 a
\* linked page gets d/k + (1-d)/n and any other page (1-d)/n, with k = 0
\* every page gets 1/n.  (Stated cleared of fractions: n*k*v = n*d + k*(1-d),
\* n*v = 1-d, n*v = 1.)
C2_TransitionValues ==
    (TransitionReturned /\ len(corpus) > 0) =>
        LET L == corpus[page]
            k == Cardinality(L)
            m == len(corpus)
            v == outcome.value
            d == damping_factor
        IN  /\ DOMAIN v = DOMAIN corpus
            /\ \A q \in DOMAIN corpus :
                  IF k = 0 THEN Mul(FromInt(m), v[q]) = One
                  ELSE IF q \in L
                       THEN Mul(FromInt(m * k), v[q]) =
                                Add(Mul(FromInt(m), d), Mul(FromInt(k), Sub(One, d)))
                       ELSE Mul(FromInt(m), v[q]) = Sub(One, d)

C2_Witness ==
    /\ TransitionReturned
    /\ Cardinality(get_links(corpus, page)) = 2
    /\ len(corpus) = 3
    /\ damping_factor = DAMPING

\* C3: the mapping returned by sample_pagerank has an entry for every page of
\* the corpus, and its values sum to 1.
C3_EveryPageRanked ==
    SampleReturned =>
        /\ DOMAIN outcome.value = DOMAIN corpus
        /\ SumValues(outcome.value) = One

\* C4: when iterate_pagerank has returned, the caller's corpus has the links
\* it had before the call.
C4_CorpusUntouched == IterateReturned => corpus = crawled

\* C5: on an empty corpus each of transition_model, sample_pagerank and
\* iterate_pagerank ends with InvalidGraph.
C5_EmptyCorpusRejected ==
    (len(corpus) = 0 /\ outcome.op # "none") => outcome.kind = "InvalidGraph"

\* C6: with a damping factor outside [0,1) iterate_pagerank ends with
\* InvalidParameter: it neither enters the rounds nor returns a mapping.
C6_DampingRejected ==
    (len(crawled) > 0 /\ ~InHalfOpenUnit(damping_factor)) =>
        /\ ~IterateRunning
        /\ outcome.op = "iterate_pagerank" => outcome.kind = "InvalidParameter"

\* The recurrence of C7, on the corpus as crawled, with the ranks held as a
\* sequence in the order of the page names: a page without links counts as
\* linking to every page.
RefLinked(g, q, p) == g[q] = {} \/ p \in g[q]

RefOutDegree(g, q) == IF g[q] = {} THEN len(g) ELSE Cardinality(g[q])

RECURSIVE RefInflow(_, _, _, _)
RefInflow(g, r, p, k) ==
    IF k = 0 THEN Zero
    ELSE IF RefLinked(g, PageName(k), p)
         THEN Add(RefInflow(g, r, p, k - 1), Div(r[k], RefOutDegree(g, PageName(k))))
         ELSE RefInflow(g, r, p, k - 1)

RefRound(g, d, r) ==
    SubSeq([k \in 1..len(g) |->
               Add(Div(Sub(One, d), len(g)), Mul(d, RefInflow(g, r, PageName(k), len(g))))],
           1, len(g))

\* the iterates 0..k, iterate j at position j + 1
RECURSIVE RefIterates(_, _, _)
RefIterates(g, d, k) ==
    IF k = 0 THEN <<SubSeq([j \in 1..len(g) |-> Div(One, len(g))], 1, len(g))>>
    ELSE LET s == RefIterates(g, d, k - 1)
         IN  Append(s, RefRound(g, d, s[k]))

RefSettled(new, old) ==
    \A k \in 1..Len(new) : ~Gt(Abs(Sub(new[k], old[k])), Tolerance)

\* C7: iterate_pagerank returns iterate k of the simultaneous recurrence,
\* started from 1/n, where k >= 1 is the first round whose every change is at
\* most 0.001.
C7_ReturnsFirstSettledIterate ==
    IterateReturned =>
        LET s == RefIterates(crawled, damping_factor, depth)
        IN  /\ depth >= 1
            /\ DOMAIN outcome.value = DOMAIN crawled
            /\ \A p \in DOMAIN crawled : outcome.value[p] = s[depth + 1][PageIndex(p)]
            /\ RefSettled(s[depth + 1], s[depth])
            /\ \A j \in 1..(depth - 1) : ~RefSettled(s[j + 1], s[j])

C7_Witness ==
    /\ IterateReturned
    /\ HasPageWithoutLinks(crawled)
    /\ len(crawled) = 3
    /\ damping_factor = DAMPING
    /\ depth >= 3

\* C8: for a non-empty corpus and a damping factor in [0,1), a call of
\* iterate_pagerank that has ended has returned its mapping.
C8_IterateReturns ==
    (pc = "idle" /\ outcome.op = "iterate_pagerank"
        /\ len(crawled) > 0 /\ InHalfOpenUnit(damping_factor)) =>
        outcome.kind = "return"

\* what C9 says of one step of sample_pagerank
C9_Step ==
    /\ pc' = "sample" =>
          /\ sum_counts(clicks', DOMAIN clicks') = i' + 1
          /\ DOMAIN clicks' \subseteq DOMAIN corpus'
          /\ page' \in DOMAIN clicks'
    /\ (pc = "idle" /\ pc' = "sample") =>
          /\ i' = 0
          /\ clicks' = [q \in {page'} |-> 1]
    /\ (pc = "sample" /\ pc' = "sample") =>
          /\ i' = i + 1
          /\ IsPos(transition_model(corpus, page, damping_factor)[page'])
          /\ \A q \in DOMAIN clicks' :
                clicks'[q] = (IF q \in DOMAIN clicks THEN clicks[q] ELSE 0)
                             + (IF q = page' THEN 1 ELSE 0)
    /\ (pc = "sample" /\ pc' = "idle") =>
          /\ i = n
          /\ outcome'.kind = "return"
          /\ outcome'.value = [q \in DOMAIN clicks |-> Div(FromInt(clicks[q]), n + 1)]

\* C9: sample_pagerank counts the start page once and then every drawn
\* page once, each drawn with positive weight from the transition model of
\* the page before it; after i draws the counts total i + 1 over pages of the
\* corpus; the returned value of a page is its count divided by n + 1.
C9_VisitsCounted == [][C9_Step]_vars

C9_Witness ==
    /\ SampleReturned
    /\ n = 2
    /\ len(corpus) = 3
    /\ \E q \in DOMAIN outcome.value : outcome.value[q] = Div(FromInt(2), 3)

=============================================================================
